---- MODULE Spec2Model ----
(***************************************************************************)
(* A model of the helicase k-mer library: the 2-bit base alphabet, the     *)
(* inline window small::Kmer<K> (one u64), the bit-vector windows          *)
(* growable::Kmer and unbounded::Kmer (circular buffer), and the sliding   *)
(* window iterator of Sequence.                                            *)
(*                                                                         *)
(* A u64 is modelled bit by bit, as the sequence of its 64 bits, element    *)
(* i+1 holding bit i (bit 0 the least significant): shifts drop the bits   *)
(* that leave the word, exactly as the machine word does.  A bit buffer    *)
(* (BitBox, BitVec) is a sequence of bits, element i+1 holding the         *)
(* buffer's bit index i.                                                   *)
(***************************************************************************)
EXTENDS Integers, Sequences, FiniteSets, TLC

----------------------------------------------------------------------------
(* Bounds of the model *)

\* windows a caller holds at once (yielded by SmallKmerIter::next, or clones)
MaxHeld == 3

\* single push() calls on an inline window in one behaviour
MaxPush == 2

\* push() calls on a circular window in one behaviour
MaxCircPush == 5

\* length of the byte slice given to from_bytes
MaxBytes == 2

\* the pushes and the reads begun in one behaviour that has reads
MaxOps == 3

\* the items an iterator has yielded when it is dropped before its end, or when
\* its inline window is pushed to
MaxReadPos == 1

----------------------------------------------------------------------------
(* Machine words *)

\* u64::BITS
W == 64

\* bit i of the word w
Bit(w, i) == w[i + 1]

\* the word whose bit i is f(i)
MkWord(f(_)) == [j \in 1..W |-> f(j - 1)]

ZeroWord == MkWord(LAMBDA i : 0)

\* u64::MAX
MaxWord == MkWord(LAMBDA i : 1)

\* w << n on u64 for n < 64, and u64::unbounded_shl for any n
Shl(w, n) == MkWord(LAMBDA i : IF i >= n THEN Bit(w, i - n) ELSE 0)

\* w >> n on u64 for n < 64, and u64::unbounded_shr for any n
Shr(w, n) == MkWord(LAMBDA i : IF i + n < W THEN Bit(w, i + n) ELSE 0)

BitOr(a, b) == MkWord(LAMBDA i : IF Bit(a, i) = 1 \/ Bit(b, i) = 1 THEN 1 ELSE 0)

BitAnd(a, b) == MkWord(LAMBDA i : IF Bit(a, i) = 1 /\ Bit(b, i) = 1 THEN 1 ELSE 0)

RECURSIVE Pow2(_)
Pow2(n) == IF n = 0 THEN 1 ELSE 2 * Pow2(n - 1)

\* `v as u64` / `v as usize` for a value v < 256: zero extension
U64FromU8(v) == MkWord(LAMBDA i : IF i < 8 THEN (v \div Pow2(i)) % 2 ELSE 0)

\* `w as u8`: truncation to the low 8 bits
AsU8(w) ==
  Bit(w, 0) + 2 * Bit(w, 1) + 4 * Bit(w, 2) + 8 * Bit(w, 3)
    + 16 * Bit(w, 4) + 32 * Bit(w, 5) + 64 * Bit(w, 6) + 128 * Bit(w, 7)

\* u32::saturating_sub
SaturatingSub(a, b) == IF a >= b THEN a - b ELSE 0

\* a faulty saturating_bitmask: (1 << bits) - 1 with a wrapping shift, which is 0 at bits = 64
SaturatingBitmaskWrapping(bits) == IF bits >= W THEN ZeroWord ELSE Shr(MaxWord, W - bits)

\* utils::saturating_bitmask
SaturatingBitmask(bits) == Shr(MaxWord, SaturatingSub(W, bits))

\* a faulty bitmask_range: a mask of n bits, not of n - m bits, moved up by m
BitmaskRangeWidthN(m, n) == Shl(SaturatingBitmask(n), m)

\* utils::bitmask_range
BitmaskRange(m, n) == Shl(SaturatingBitmask(SaturatingSub(n, m)), m)

\* utils::const_eval assertions: TRUE when the assertion passes
AssertLess(l, k) == l < k

AssertLeq(l, k) == l <= k

AssertSumLeq(l, k, m) == l + k <= m

----------------------------------------------------------------------------
(* Base *)

Base == {"C", "A", "T", "G"}

\* `base as u8`: the enum's discriminant
BaseCode(b) == CASE b = "C" -> 0 [] b = "A" -> 1 [] b = "T" -> 2 [] b = "G" -> 3

\* Base::from_u8_unchecked; a value outside 0..3 reaches unreachable_unchecked
FromU8Unchecked(v) == CASE v = 0 -> "C" [] v = 1 -> "A" [] v = 2 -> "T" [] v = 3 -> "G" [] OTHER -> "undefined"

\* the values of a u8
U8 == 0..255

\* a faulty try_from: the value is cut to its low two bits instead of being rejected
TryFromU8LowBits(value) == FromU8Unchecked(value % 4)

\* impl TryFrom<u8> for Base: the base of Ok(base), or "Err" for Err(())
TryFromU8(value) ==
  CASE value = 0 -> "C" [] value = 1 -> "A" [] value = 2 -> "T" [] value = 3 -> "G"
    [] OTHER -> "Err"

\* a faulty from_ascii: the lower-case letters are missing from the match
FromAsciiUpperOnly(value) ==
  CASE value = 67 -> "C" [] value = 65 -> "A" [] value = 84 -> "T" [] value = 71 -> "G"
    [] OTHER -> "None"

\* Base::from_ascii: the base of Some(base), or "None"; b'C' = 67, b'c' = 99, b'A' = 65,
\* b'a' = 97, b'T' = 84, b't' = 116, b'G' = 71, b'g' = 103
FromAscii(value) ==
  CASE value = 67 \/ value = 99 -> "C"
    [] value = 65 \/ value = 97 -> "A"
    [] value = 84 \/ value = 116 -> "T"
    [] value = 71 \/ value = 103 -> "G"
    [] OTHER -> "None"

----------------------------------------------------------------------------
(* small::Kmer<K>: a window of K bases in one u64 *)

VARIABLES
  K,      \* the window length: the const generic K, or the k given to new(k)
  ctor,   \* how the window was built: "new", "from" (From<u64>) or "from_bytes"
  hist,   \* history: the bases pushed since construction, oldest first
  npush,  \* number of single push() calls so far
  ran,    \* whether the repeat-push loop has run
  kmer,   \* small::Kmer<K>: [st, inner]; st = "ok", "panic" (no value was produced),
          \* "moved" (consumed) or "absent"
  last,   \* the last consuming operation on `kmer`, its operands and its outcome
  grow,   \* growable::Kmer: [st, inner], inner the bit buffer
  circ,   \* unbounded::Kmer: [st, store, start]
  bytes,  \* the byte slice given to from_bytes
  seq,    \* Sequence: its bit store
  iter,   \* SmallKmerIter: [st, pos, kmer, count, out, done]
  call,   \* the last call of a Base conversion: [fn, arg, out]
  rd,     \* small::Bases, a reader of `kmer`: [st, pos, snap, out]
  held,   \* the windows the caller holds: yielded by SmallKmerIter::next, or clones
  reads   \* history: the reads begun so far: [by, from, to, out], from and to the
          \* number of pushes when the read began and ended (to = -1 while it runs)

\* a window value; the word is held as the sequence of its W bits
Window(w) == [st |-> "ok", inner |-> SubSeq(w, 1, W)]

\* a failed assertion: the call panics and returns nothing
Panicked == [st |-> "panic", inner |-> ZeroWord]

\* a value consumed by a `self` method
Moved == [st |-> "moved", inner |-> ZeroWord]

\* no inline window in this behaviour
NoKmer == [st |-> "absent", inner |-> ZeroWord]

\* impl From<u64> for Kmer<K>
SmallFrom(value) == Window(value)

\* Kmer::<K>::new
SmallNew(k) == IF AssertLess(0, k) /\ AssertLeq(k, 32) THEN Window(ZeroWord) ELSE Panicked

\* Kmer::push
SmallPush(km, base) == Window(BitOr(Shl(km.inner, 2), U64FromU8(BaseCode(base))))

\* Kmer::into_inner
IntoInner(km) == km.inner

\* Kmer::<K>::into_masked
IntoMasked(k, km) == BitAnd(km.inner, SaturatingBitmask(k * 2))

\* a faulty shrink_to: keeps the L oldest bases by moving the bits down
ShrinkToOldest(k, km, l) == IF AssertLeq(l, k) THEN Window(Shr(km.inner, (k - l) * 2)) ELSE Panicked

\* Kmer::<K>::shrink_to::<L>
ShrinkTo(k, km, l) == IF AssertLeq(l, k) THEN Window(km.inner) ELSE Panicked

\* Kmer::<K>::join::<L>: the set of outcomes.  `<<` by 64 or more panics in a
\* build with overflow checks and shifts by the amount modulo 64 without them.
Join(k, km, l, other) ==
  IF ~AssertSumLeq(k, l, 32) THEN {Panicked}
  ELSE IF SmallNew(k + l).st = "panic" THEN {Panicked}
  ELSE IF l * 2 < W THEN {Window(BitOr(Shl(IntoInner(km), l * 2), IntoInner(other)))}
  ELSE {Panicked, Window(BitOr(Shl(IntoInner(km), (l * 2) % W), IntoInner(other)))}

\* a faulty mask: three bits are kept instead of two
SmallBasesArgThreeBits(k, km, pos) ==
  AsU8(BitAnd(Shr(km.inner, (k - pos - 1) * 2), U64FromU8(7)))

\* the argument Bases::<K>::next gives from_u8_unchecked at position pos:
\* ((inner >> ((K - pos - 1) * 2)) & 3) as u8
SmallBasesArg(k, km, pos) ==
  AsU8(BitAnd(Shr(km.inner, (k - pos - 1) * 2), U64FromU8(3)))

\* a faulty next: reads the 2-bit groups from bit 0 upwards, newest base first
SmallBasesNextNewestFirst(k, km, pos) ==
  IF pos >= k THEN "None"
  ELSE FromU8Unchecked(AsU8(BitAnd(Shr(km.inner, pos * 2), U64FromU8(3))))

\* Bases::<K>::next at position pos: the item, or "None"
SmallBasesNext(k, km, pos) ==
  IF pos >= k THEN "None"
  ELSE FromU8Unchecked(SmallBasesArg(k, km, pos))

\* the outcomes of Bases::<K>::next at position pos: the item, "None", or "Panic".
\* For K > 32 the shift amount (K - pos - 1) * 2 reaches 64: `>>` panics in a build
\* with overflow checks, and takes the amount modulo 64 in a build without
SmallBasesNextOutcomes(k, km, pos) ==
  IF pos >= k THEN {"None"}
  ELSE IF (k - pos - 1) * 2 >= W
       THEN {"Panic",
             FromU8Unchecked(AsU8(BitAnd(Shr(km.inner, ((k - pos - 1) * 2) % W), U64FromU8(3))))}
       ELSE {SmallBasesNext(k, km, pos)}

\* self.pos after Bases::<K>::next at position pos: None leaves it, an item adds one
SmallBasesPosAfter(k, pos) == IF pos >= k THEN pos ELSE pos + 1

\* Bases::<K>::size_hint at position pos: (remaining, Some(remaining)), as the pair
\* of the lower bound and the upper bound
SmallBasesSizeHint(k, pos) == <<k - pos, k - pos>>

\* kmer.bases().collect(): next() from pos = 0 until it returns None
SmallBases(k, km) == [p \in 1..k |-> SmallBasesNext(k, km, p - 1)]

RECURSIVE PushSeq(_, _)
\* push() of each base of s in order
PushSeq(km, s) ==
  IF s = <<>> \/ km.st # "ok" THEN km ELSE PushSeq(SmallPush(km, Head(s)), Tail(s))

\* the sequence of n copies of b
Repeat(b, n) == [i \in 1..n |-> b]

\* all sequences over S of length at most n
SeqsUpTo(S, n) == UNION {[1..m -> S] : m \in 0..n}

\* the last n elements of s (all of s when it is shorter)
LastN(s, n) == IF Len(s) <= n THEN s ELSE SubSeq(s, Len(s) - n + 1, Len(s))

----------------------------------------------------------------------------
(* growable::Kmer: a window in a bit vector (Msb0) *)

\* bitvec![0; n] / bitbox![0; n]: n zero bits
ZeroBits(n) == [i \in 1..n |-> 0]

GrowWindow(bits) == [st |-> "ok", inner |-> bits]

NoGrow == [st |-> "absent", inner |-> <<>>]

\* growable::Kmer::new
GrowableNew(k) == GrowWindow(ZeroBits(k * 2))

\* growable::Kmer::size
GrowableSize(g) == Len(g.inner)

\* push of the fixed bit-vector window, which growable.rs does not define: the
\* whole buffer moves up by 2 bits, the top 2 bits (the oldest base) are
\* dropped and the code is written into the low 2 bits.  Element 1 of the
\* buffer is its most significant bit.
GrowablePush(g, base) ==
  IF Len(g.inner) < 2 THEN g
  ELSE GrowWindow(SubSeq(g.inner, 3, Len(g.inner))
                    \o <<BaseCode(base) \div 2, BaseCode(base) % 2>>)

\* the read of the fixed bit-vector window, which growable.rs does not define:
\* the 2-bit groups from the most significant down, oldest base first
GrowableBases(g) ==
  [p \in 1..(Len(g.inner) \div 2) |-> FromU8Unchecked(2 * g.inner[2 * p - 1] + g.inner[2 * p])]

----------------------------------------------------------------------------
(* unbounded::Kmer: a window in a circular bit buffer (Lsb0) *)

Circ(store, start) == [st |-> "ok", store |-> store, start |-> start]

\* push panicked
CircPanicked == [st |-> "panic", store |-> <<>>, start |-> 0]

NoCirc == [st |-> "absent", store |-> <<>>, start |-> 0]

\* a faulty new: one bit per base instead of two
UnboundedNewOneBitPerBase(k) == Circ(ZeroBits(k), k)

\* unbounded::Kmer::new
UnboundedNew(k) == Circ(ZeroBits(k * 2), k * 2)

\* a faulty from_bytes: without rev(), the first byte lands in the lowest chunk
UnboundedFromBytesNoRev(bs) ==
  Circ([j \in 1..(Len(bs) * 8) |->
          LET i == j - 1 IN (bs[(i \div 8) + 1] \div Pow2(i % 8)) % 2],
       Len(bs) * 8)

\* unbounded::Kmer::from_bytes: the 8-bit chunk c takes byte len-1-c, and bit t of
\* the chunk is bit t of the byte
UnboundedFromBytes(bs) ==
  Circ([j \in 1..(Len(bs) * 8) |->
          LET i == j - 1 IN (bs[Len(bs) - (i \div 8)] \div Pow2(i % 8)) % 2],
       Len(bs) * 8)

\* a faulty push: the two bits of the code are written high bit first
UnboundedPushHighBitFirst(c, base) ==
  IF c.start < 2 \/ c.start > Len(c.store) THEN CircPanicked
  ELSE LET code == U64FromU8(BaseCode(base))
           store2 == SubSeq(c.store, 1, c.start - 2)
                       \o <<Bit(code, 1), Bit(code, 0)>>
                       \o SubSeq(c.store, c.start + 1, Len(c.store))
           s1 == (c.start - 2) % Len(c.store)
       IN Circ(store2, IF s1 = 0 THEN s1 + Len(c.store) ELSE s1)

\* a faulty push: start moves down by one bit instead of one 2-bit slot
UnboundedPushOneBit(c, base) ==
  IF c.start < 2 \/ c.start > Len(c.store) THEN CircPanicked
  ELSE LET code == U64FromU8(BaseCode(base))
           store2 == SubSeq(c.store, 1, c.start - 2)
                       \o <<Bit(code, 0), Bit(code, 1)>>
                       \o SubSeq(c.store, c.start + 1, Len(c.store))
           s1 == (c.start - 1) % Len(c.store)
       IN Circ(store2, IF s1 = 0 THEN s1 + Len(c.store) ELSE s1)

\* a faulty push: start is left at 0 after the slot at the bottom was written
UnboundedPushNoWrap(c, base) ==
  IF c.start < 2 \/ c.start > Len(c.store) THEN CircPanicked
  ELSE LET code == U64FromU8(BaseCode(base))
           store2 == SubSeq(c.store, 1, c.start - 2)
                       \o <<Bit(code, 0), Bit(code, 1)>>
                       \o SubSeq(c.store, c.start + 1, Len(c.store))
       IN Circ(store2, (c.start - 2) % Len(c.store))

\* unbounded::Kmer::push.  With start < 2 the subtraction overflows (a panic
\* with overflow checks; without them the wrapped range is rejected by
\* get_mut and expect panics), and a range past the end is rejected too.
UnboundedPush(c, base) ==
  IF c.start < 2 \/ c.start > Len(c.store) THEN CircPanicked
  ELSE LET code == U64FromU8(BaseCode(base))
           store2 == SubSeq(c.store, 1, c.start - 2)
                       \o <<Bit(code, 0), Bit(code, 1)>>
                       \o SubSeq(c.store, c.start + 1, Len(c.store))
           s1 == (c.start - 2) % Len(c.store)
       IN Circ(store2, IF s1 = 0 THEN s1 + Len(c.store) ELSE s1)

\* unbounded::Kmer::size
UnboundedSize(c) == Len(c.store) \div 2

\* the first bit of the range push() writes: get_mut(start - 2..start)
UnboundedPushOffset(c) == c.start - 2

\* a faulty bit_pos: the match that turns 0 into the buffer length is missing
UnboundedBitPosNoWrap(c, n) == (c.start - n * 2) % Len(c.store)

\* bit_pos of Bases::next with num_read = n: the end of the range it reads,
\* (start - 2 * num_read).rem_euclid(len) with 0 replaced by len
UnboundedBitPos(c, n) ==
  LET r == (c.start - n * 2) % Len(c.store)
  IN IF r = 0 THEN Len(c.store) ELSE r

\* the argument the circular Bases::next gives from_u8_unchecked with num_read = n:
\* store[bit_pos - 2..bit_pos].load::<u8>(), the first bit the low one
UnboundedBasesArg(c, n) ==
  LET bit_pos == UnboundedBitPos(c, n)
  IN c.store[bit_pos - 1] + 2 * c.store[bit_pos]

\* a faulty next: the slots are read upwards from start instead of downwards
UnboundedBasesNextUpwards(c, n) ==
  IF n >= UnboundedSize(c) THEN "None"
  ELSE LET r == (c.start + (n + 1) * 2) % Len(c.store)
           bit_pos == IF r = 0 THEN Len(c.store) ELSE r
       IN IF bit_pos < 2 \/ bit_pos > Len(c.store) THEN "None"
          ELSE FromU8Unchecked(c.store[bit_pos - 1] + 2 * c.store[bit_pos])

\* Bases::next with num_read = n: the item, or "None"
UnboundedBasesNext(c, n) ==
  IF n >= UnboundedSize(c) THEN "None"
  ELSE LET bit_pos == UnboundedBitPos(c, n)
       IN IF bit_pos < 2 \/ bit_pos > Len(c.store) THEN "None"
          ELSE FromU8Unchecked(UnboundedBasesArg(c, n))

\* self.num_read after the circular Bases::next with num_read = n
UnboundedNumReadAfter(c, n) == IF UnboundedBasesNext(c, n) = "None" THEN n ELSE n + 1

\* the circular Bases::size_hint with num_read = n: size() - num_read, twice
UnboundedBasesSizeHint(c, n) == <<UnboundedSize(c) - n, UnboundedSize(c) - n>>

RECURSIVE UnboundedCollect(_, _)
\* the items next() yields from num_read = n until it returns None
UnboundedCollect(c, n) ==
  LET x == UnboundedBasesNext(c, n)
  IN IF x = "None" THEN <<>> ELSE <<x>> \o UnboundedCollect(c, n + 1)

\* kmer.bases().collect()
UnboundedBases(c) == UnboundedCollect(c, 0)

----------------------------------------------------------------------------
(* Sequence: an append-only bit vector (Lsb0) and its sliding-window iterator *)

\* Sequence::new: an empty store
SequenceNew == <<>>

\* the pair (bits.0, bits.1) the match of Sequence::push gives a base
SequenceBits(base) ==
  CASE base = "C" -> <<0, 0>>
    [] base = "A" -> <<0, 1>>
    [] base = "T" -> <<1, 0>>
    [] base = "G" -> <<1, 1>>

\* Sequence::push: store.push(bits.1); store.push(bits.0)
SequencePush(store, base) ==
  LET bits == SequenceBits(base) IN store \o <<bits[2], bits[1]>>

RECURSIVE SequencePushSeq(_, _)
\* for base in repeat_n(b, n) { seq.push(base) }
SequencePushSeq(store, s) ==
  IF s = <<>> THEN store ELSE SequencePushSeq(SequencePush(store, Head(s)), Tail(s))

\* store.chunks_exact(2): the number of whole 2-bit chunks
NumChunks(store) == Len(store) \div 2

\* chunk.load::<u8>() of the chunk with index c (from 0): Lsb0, the first bit the low one
ChunkLoad(store, c) == store[2 * c + 1] + 2 * store[2 * c + 2]

\* the iterator a failed Kmer::<K>::new() leaves: kmers() panicked
IterPanicked ==
  [st |-> "panicked", pos |-> 0, kmer |-> ZeroWord, count |-> 0, out |-> ZeroWord, done |-> FALSE]

RECURSIVE Seed(_, _, _, _)
\* n more rounds of the seeding loop of kmers(): a round pushes the next chunk if there is one
Seed(km, store, pos, n) ==
  IF n <= 0 \/ km.st # "ok" THEN [kmer |-> km, pos |-> pos]
  ELSE IF pos < NumChunks(store)
       THEN Seed(SmallPush(km, FromU8Unchecked(ChunkLoad(store, pos))), store, pos + 1, n - 1)
       ELSE Seed(km, store, pos, n - 1)

\* a seeding loop that runs K times instead of K - 1
SequenceKmersSeedK(k, store) ==
  LET km == SmallNew(k)
  IN IF km.st # "ok" THEN IterPanicked
     ELSE LET s == Seed(km, store, 0, k)
          IN [st |-> "ok", pos |-> s.pos, kmer |-> s.kmer.inner, count |-> 0,
              out |-> ZeroWord, done |-> FALSE]

\* Sequence::kmers::<K>: a new window seeded with up to K - 1 chunks; pos is the
\* number of chunks the ChunksExact has given out, count the number of windows yielded
SequenceKmers(k, store) ==
  LET km == SmallNew(k)
  IN IF km.st # "ok" THEN IterPanicked
     ELSE LET s == Seed(km, store, 0, k - 1)
          IN [st |-> "ok", pos |-> s.pos, kmer |-> s.kmer.inner, count |-> 0,
              out |-> ZeroWord, done |-> FALSE]

\* SmallKmerIter::next: None when the chunks are used up (`?`), else push the next
\* chunk and yield the window by value
SmallKmerIterNext(it, store) ==
  IF it.pos >= NumChunks(store) THEN [it EXCEPT !.done = TRUE]
  ELSE LET km == SmallPush(Window(it.kmer), FromU8Unchecked(ChunkLoad(store, it.pos)))
       IN [it EXCEPT !.pos = @ + 1, !.kmer = km.inner, !.count = @ + 1, !.out = km.inner]

\* SmallKmerIter::size_hint: bases.size_hint(), the chunks the ChunksExact has left
SmallKmerIterSizeHint(it, store) == <<NumChunks(store) - it.pos, NumChunks(store) - it.pos>>

----------------------------------------------------------------------------
(* Windows held by the caller: values, each with its own word *)

\* a faulty next: the item is a view of the iterator's own window
YieldedView(it, want) ==
  [kind |-> "iter", inner |-> ZeroWord, of |-> 0, want |-> want, pushed |-> FALSE]

\* the item of Some(self.kmer): a Kmer<K> by value, with the word the iterator's
\* window has now; want records the bases it is yielded for
Yielded(it, want) ==
  [kind |-> "value", inner |-> it.kmer, of |-> 0, want |-> want, pushed |-> FALSE]

RECURSIVE Deref(_, _)
\* the word read through the held window i
Deref(h, i) ==
  CASE h[i].kind = "value" -> h[i].inner
    [] h[i].kind = "iter" -> iter.kmer
    [] h[i].kind = "alias" -> Deref(h, h[i].of)

\* a faulty clone: the clone shares the original's cell
SmallCloneShared(h, i) ==
  [kind |-> "alias", inner |-> ZeroWord, of |-> i, want |-> h[i].want, pushed |-> FALSE]

\* #[derive(Clone)] on Kmer { inner: Cell<u64> }: a new cell with the value read now
SmallClone(h, i) ==
  [kind |-> "value", inner |-> Deref(h, i), of |-> i, want |-> h[i].want, pushed |-> FALSE]

----------------------------------------------------------------------------
(* The state machines *)

NoOp == [op |-> "none", l |-> 0, src |-> ZeroWord, other |-> ZeroWord, out |-> Panicked]

NoIter == [st |-> "absent", pos |-> 0, kmer |-> ZeroWord, count |-> 0, out |-> ZeroWord, done |-> FALSE]

\* window lengths requested of new(): 0 and 33 are rejected
SmallKs == {0, 1, 2, 4, 31, 32, 33}

\* window lengths and values given to From<u64>, which asserts nothing
FromKs == {0, 2}

FromValues == {ZeroWord, MaxWord, U64FromU8(27)}

\* targets of shrink_to
ShrinkLs == {0, 1, 2, 3, 31, 32, 33}

\* window lengths of the receiver of join
JoinKs == {1, 2, 31, 32}

\* the `other` operands of join: windows built by new::<L>() and pushes, or by From<u64>
OtherKmers ==
  {[l |-> l, km |-> PushSeq(SmallNew(l), s)] : l \in {1, 2}, s \in SeqsUpTo(Base, 2)}
    \cup {[l |-> 0, km |-> SmallFrom(v)] : v \in FromValues}
    \cup {[l |-> 32, km |-> SmallNew(32)]}

\* bases repeated by the push loop
RunBases == {"A", "G"}

\* lengths of the push loop: K as in the benchmark, or K - 2
RunLens(k) == {k - 2, k} \cap 1..k

\* the variables of the windows a behaviour does not use
NoSmall == kmer = NoKmer /\ last = NoOp

NoSequence == seq = <<>> /\ iter = NoIter

NoBitWindows == grow = NoGrow /\ circ = NoCirc /\ bytes = <<>>

\* no conversion called yet
NoCall == [fn |-> "none", arg |-> 0, out |-> "none"]

\* no Bases iterator alive
NoReader == [st |-> "absent", pos |-> 0, snap |-> <<>>, out |-> <<>>]

NoExtras == call = NoCall /\ rd = NoReader /\ held = <<>> /\ reads = <<>>

InitSmallNew(ks) ==
  /\ K \in ks
  /\ kmer = SmallNew(K)
  /\ ctor = "new"
  /\ hist = <<>> /\ npush = 0 /\ ran = FALSE
  /\ last = NoOp
  /\ NoBitWindows /\ NoSequence
  /\ NoExtras

InitSmallFrom ==
  /\ K \in FromKs
  /\ \E v \in FromValues : kmer = SmallFrom(v)
  /\ ctor = "from"
  /\ hist = <<>> /\ npush = 0 /\ ran = FALSE
  /\ last = NoOp
  /\ NoBitWindows /\ NoSequence
  /\ NoExtras

\* kmer.push(base)
Push(base) ==
  /\ kmer.st = "ok"
  /\ npush < MaxPush
  /\ kmer' = SmallPush(kmer, base)
  /\ hist' = Append(hist, base)
  /\ npush' = npush + 1
  /\ UNCHANGED <<K, ctor, ran, last, grow, circ, bytes, seq, iter, call, rd, held, reads>>

\* for base in repeat_n(b, n) { kmer.push(base) }
PushRepeat(base, n) ==
  /\ kmer.st = "ok"
  /\ ~ran
  /\ kmer' = PushSeq(kmer, Repeat(base, n))
  /\ hist' = hist \o Repeat(base, n)
  /\ ran' = TRUE
  /\ UNCHANGED <<K, ctor, npush, last, grow, circ, bytes, seq, iter, call, rd, held, reads>>

\* kmer.shrink_to::<L>(): consumes the window
DoShrinkTo(l) ==
  /\ kmer.st = "ok"
  /\ last' = [op |-> "shrink_to", l |-> l, src |-> kmer.inner, other |-> ZeroWord,
              out |-> ShrinkTo(K, kmer, l)]
  /\ kmer' = Moved
  /\ UNCHANGED <<K, ctor, hist, npush, ran, grow, circ, bytes, seq, iter, call, rd, held, reads>>

\* kmer.join(other): consumes both windows
DoJoin(o) ==
  /\ kmer.st = "ok"
  /\ \E r \in Join(K, kmer, o.l, o.km) :
       last' = [op |-> "join", l |-> o.l, src |-> kmer.inner, other |-> o.km.inner, out |-> r]
  /\ kmer' = Moved
  /\ UNCHANGED <<K, ctor, hist, npush, ran, grow, circ, bytes, seq, iter, call, rd, held, reads>>

vars == <<K, ctor, hist, npush, ran, kmer, last, grow, circ, bytes, seq, iter, call, rd, held, reads>>

InitSmall == InitSmallNew(SmallKs) \/ InitSmallFrom

NextSmall ==
  \/ \E b \in Base : Push(b)
  \/ \E b \in RunBases, n \in RunLens(K) : PushRepeat(b, n)
  \/ \E l \in ShrinkLs : DoShrinkTo(l)

\* an inline window: construction, pushes, shrink_to
SpecSmall == InitSmall /\ [][NextSmall]_vars

InitJoin == InitSmallNew(JoinKs) \/ InitSmallFrom

NextJoin ==
  \/ \E b \in Base : Push(b)
  \/ \E b \in RunBases, n \in RunLens(K) : PushRepeat(b, n)
  \/ \E l \in ShrinkLs : DoShrinkTo(l)
  \/ \E o \in OtherKmers : DoJoin(o)

\* an inline window: construction, pushes, shrink_to and join
SpecJoin == InitJoin /\ [][NextJoin]_vars

\* window lengths given to unbounded::Kmer::new
CircKs == {0, 1, 2, 3, 5}

\* byte values given to from_bytes: 00_01_10_11, 11_10_01_00, 10_00_11_01
ByteValues == {27, 228, 141}

InitCircNew ==
  /\ K \in CircKs
  /\ circ = UnboundedNew(K)
  /\ bytes = <<>>
  /\ ctor = "new"
  /\ hist = <<>> /\ npush = 0 /\ ran = FALSE
  /\ grow = NoGrow /\ NoSmall /\ NoSequence
  /\ NoExtras

InitCircFromBytes ==
  /\ bytes \in SeqsUpTo(ByteValues, MaxBytes)
  /\ circ = UnboundedFromBytes(bytes)
  /\ K = UnboundedSize(circ)
  /\ ctor = "from_bytes"
  /\ hist = <<>> /\ npush = 0 /\ ran = FALSE
  /\ grow = NoGrow /\ NoSmall /\ NoSequence
  /\ NoExtras

\* kmer.push(base) on the circular window
CircPush(base) ==
  /\ circ.st = "ok"
  /\ npush < MaxCircPush
  /\ circ' = UnboundedPush(circ, base)
  /\ hist' = Append(hist, base)
  /\ npush' = npush + 1
  /\ UNCHANGED <<K, ctor, ran, kmer, last, grow, bytes, seq, iter, call, rd, held, reads>>

InitUnbounded == InitCircNew \/ InitCircFromBytes

NextUnbounded == \E b \in Base : CircPush(b)

\* a circular window: construction and pushes
SpecUnbounded == InitUnbounded /\ [][NextUnbounded]_vars

\* window lengths given to all three constructors
EquivKs == {0, 1, 2, 4, 31, 32, 33}

\* Kmer::<K>::new(), growable::Kmer::new(K) and unbounded::Kmer::new(K)
InitEquiv ==
  /\ K \in EquivKs
  /\ kmer = SmallNew(K)
  /\ grow = GrowableNew(K)
  /\ circ = UnboundedNew(K)
  /\ bytes = <<>>
  /\ ctor = "new"
  /\ hist = <<>> /\ npush = 0 /\ ran = FALSE
  /\ last = NoOp
  /\ NoSequence
  /\ NoExtras

\* the same base pushed to the three windows
PushAll(base) ==
  /\ kmer.st = "ok" /\ grow.st = "ok" /\ circ.st = "ok"
  /\ npush < MaxPush
  /\ kmer' = SmallPush(kmer, base)
  /\ grow' = GrowablePush(grow, base)
  /\ circ' = UnboundedPush(circ, base)
  /\ hist' = Append(hist, base)
  /\ npush' = npush + 1
  /\ UNCHANGED <<K, ctor, ran, last, bytes, seq, iter, call, rd, held, reads>>

RECURSIVE GrowablePushSeq(_, _)
GrowablePushSeq(g, s) ==
  IF s = <<>> \/ g.st # "ok" THEN g ELSE GrowablePushSeq(GrowablePush(g, Head(s)), Tail(s))

RECURSIVE UnboundedPushSeq(_, _)
UnboundedPushSeq(c, s) ==
  IF s = <<>> \/ c.st # "ok" THEN c ELSE UnboundedPushSeq(UnboundedPush(c, Head(s)), Tail(s))

\* the same loop of pushes run on the three windows
PushAllRepeat(base, n) ==
  /\ kmer.st = "ok" /\ grow.st = "ok" /\ circ.st = "ok"
  /\ ~ran
  /\ kmer' = PushSeq(kmer, Repeat(base, n))
  /\ grow' = GrowablePushSeq(grow, Repeat(base, n))
  /\ circ' = UnboundedPushSeq(circ, Repeat(base, n))
  /\ hist' = hist \o Repeat(base, n)
  /\ ran' = TRUE
  /\ UNCHANGED <<K, ctor, npush, last, bytes, seq, iter, call, rd, held, reads>>

NextEquiv ==
  \/ \E b \in Base : PushAll(b)
  \/ \E b \in RunBases, n \in RunLens(K) : PushAllRepeat(b, n)

\* the three windows built with the same K and given the same pushes
SpecEquiv == InitEquiv /\ [][NextEquiv]_vars

\* window lengths asked of kmers::<K>(): 23 as in the test and the benchmark
SeqKs == {0, 1, 2, 3, 23, 32, 33}

\* Sequence::new()
InitSequence ==
  /\ K \in SeqKs
  /\ seq = SequenceNew
  /\ iter = NoIter
  /\ ctor = "sequence"
  /\ hist = <<>> /\ npush = 0 /\ ran = FALSE
  /\ NoSmall /\ NoBitWindows
  /\ NoExtras

\* seq.push(base): needs the unique borrow, so no iterator is alive
SeqPush(base) ==
  /\ iter.st = "absent"
  /\ npush < MaxPush
  /\ seq' = SequencePush(seq, base)
  /\ hist' = Append(hist, base)
  /\ npush' = npush + 1
  /\ UNCHANGED <<K, ctor, ran, kmer, last, grow, circ, bytes, iter, call, rd, held, reads>>

\* for base in repeat_n(b, n) { seq.push(base) }
SeqPushRepeat(base, n) ==
  /\ iter.st = "absent"
  /\ ~ran
  /\ seq' = SequencePushSeq(seq, Repeat(base, n))
  /\ hist' = hist \o Repeat(base, n)
  /\ ran' = TRUE
  /\ UNCHANGED <<K, ctor, npush, kmer, last, grow, circ, bytes, iter, call, rd, held, reads>>

\* let kmers = seq.kmers::<K>()
Kmers ==
  /\ iter.st = "absent"
  /\ iter' = SequenceKmers(K, seq)
  /\ UNCHANGED <<K, ctor, hist, npush, ran, kmer, last, grow, circ, bytes, seq, call, rd, held, reads>>

\* kmers.next()
IterNext ==
  /\ iter.st = "ok" /\ ~iter.done
  /\ iter' = SmallKmerIterNext(iter, seq)
  /\ UNCHANGED <<K, ctor, hist, npush, ran, kmer, last, grow, circ, bytes, seq, call, rd, held, reads>>

\* the iterator goes out of scope: the sequence can be pushed to again
IterDrop ==
  /\ iter.st = "ok"
  /\ iter' = NoIter
  /\ UNCHANGED <<K, ctor, hist, npush, ran, kmer, last, grow, circ, bytes, seq, call, rd, held, reads>>

NextSequence ==
  \/ \E b \in Base : SeqPush(b)
  \/ \E b \in RunBases, n \in RunLens(K) : SeqPushRepeat(b, n)
  \/ Kmers
  \/ IterNext
  \/ IterDrop

\* a sequence: pushes, and the windows kmers::<K>() yields
SpecSequence == InitSequence /\ [][NextSequence]_vars

\* window lengths of the inline windows read through a Bases iterator
ReaderKs == {1, 2, 3, 32}

\* let bases = kmer.bases(): the iterator keeps a shared reference to the window and
\* pos = 0; snap records the bases the window holds at this call
Bases ==
  /\ kmer.st = "ok"
  /\ rd.st = "absent"
  /\ rd' = [st |-> "ok", pos |-> 0, snap |-> SmallBases(K, kmer), out |-> <<>>]
  /\ UNCHANGED <<K, ctor, hist, npush, ran, kmer, last, grow, circ, bytes, seq, iter, call, held, reads>>

\* bases.next(): reads the window's word through the reference, as it is now
BasesNext ==
  /\ kmer.st = "ok"
  /\ rd.st = "ok"
  /\ rd' = IF rd.pos >= K THEN [rd EXCEPT !.st = "done"]
            ELSE [rd EXCEPT !.pos = @ + 1, !.out = Append(@, SmallBasesNext(K, kmer, rd.pos))]
  /\ UNCHANGED <<K, ctor, hist, npush, ran, kmer, last, grow, circ, bytes, seq, iter, call, held, reads>>

InitReader == InitSmallNew(ReaderKs)

\* push takes &self, so it can be called while a Bases iterator is alive
NextReader ==
  \/ \E b \in Base : Push(b)
  \/ Bases
  \/ BasesNext

\* an inline window read through a Bases iterator while it is pushed to
SpecReader == InitReader /\ [][NextReader]_vars

\* window lengths of the windows a caller keeps
SnapKs == {1, 2, 3}

InitSnapshot ==
  /\ K \in SnapKs
  /\ seq = SequenceNew
  /\ iter = NoIter
  /\ ctor = "sequence"
  /\ hist = <<>> /\ npush = 0 /\ ran = FALSE
  /\ NoSmall /\ NoBitWindows
  /\ NoExtras

\* let w = kmers.next(): next() as in IterNext, and the caller keeps the item
IterNextKeep ==
  /\ iter.st = "ok" /\ ~iter.done
  /\ Len(held) < MaxHeld
  /\ iter' = SmallKmerIterNext(iter, seq)
  /\ held' = IF iter'.count > iter.count
             THEN Append(held, Yielded(iter', SubSeq(hist, iter'.count, iter'.count + K - 1)))
             ELSE held
  /\ UNCHANGED <<K, ctor, hist, npush, ran, kmer, last, grow, circ, bytes, seq, call, rd, reads>>

\* the held window i has a clone among the held windows
HasClone(i) == \E j \in 1..Len(held) : held[j].of = i

\* let c = w.clone(), for a window w yielded by the iterator and not cloned yet
CloneHeld(i) ==
  /\ i \in 1..Len(held)
  /\ held[i].of = 0 /\ ~HasClone(i)
  /\ Len(held) < MaxHeld
  /\ held' = Append(held, SmallClone(held, i))
  /\ UNCHANGED <<K, ctor, hist, npush, ran, kmer, last, grow, circ, bytes, seq, iter, call, rd, reads>>

\* w.push(base) on a yielded window that has been cloned, once per window
PushHeld(i, base) ==
  /\ i \in 1..Len(held)
  /\ held[i].kind = "value" /\ HasClone(i) /\ ~held[i].pushed
  /\ held' = [held EXCEPT ![i].inner = SmallPush(Window(@), base).inner,
                           ![i].want = LastN(@ \o <<base>>, K),
                           ![i].pushed = TRUE]
  /\ UNCHANGED <<K, ctor, hist, npush, ran, kmer, last, grow, circ, bytes, seq, iter, call, rd, reads>>

NextSnapshot ==
  \/ \E b \in RunBases : SeqPush(b)
  \/ \E b \in RunBases, n \in RunLens(K) : SeqPushRepeat(b, n)
  \/ Kmers
  \/ IterNextKeep
  \/ \E i \in 1..MaxHeld : CloneHeld(i)
  \/ \E i \in 1..MaxHeld, b \in RunBases : PushHeld(i, b)

\* a sequence whose windows the caller keeps, clones and pushes to
SpecSnapshot == InitSnapshot /\ [][NextSnapshot]_vars

\* the windows and the sequence whose reads call from_u8_unchecked
InitCalls == InitEquiv \/ InitSequence

\* a behaviour works on the windows or on the sequence it started with
NextCalls ==
  \/ ctor = "new" /\ NextEquiv
  \/ ctor = "sequence" /\ NextSequence

\* every caller of from_u8_unchecked in the library: the inline and the circular
\* window given the same pushes, or a sequence and its sliding-window iterator
SpecCalls == InitCalls /\ [][NextCalls]_vars

\* no window at all: only the conversions of Base are called
InitBase ==
  /\ K = 0 /\ ctor = "base"
  /\ hist = <<>> /\ npush = 0 /\ ran = FALSE
  /\ NoSmall /\ NoBitWindows /\ NoSequence
  /\ NoExtras

\* Base::try_from(value)
CallTryFrom(value) ==
  /\ ctor = "base"
  /\ call' = [fn |-> "try_from", arg |-> value, out |-> TryFromU8(value)]
  /\ UNCHANGED <<K, ctor, hist, npush, ran, kmer, last, grow, circ, bytes, seq, iter, rd, held, reads>>

\* unsafe { Base::from_u8_unchecked(value) }, within its safety contract
CallFromU8Unchecked(value) ==
  /\ ctor = "base"
  /\ call' = [fn |-> "from_u8_unchecked", arg |-> value, out |-> FromU8Unchecked(value)]
  /\ UNCHANGED <<K, ctor, hist, npush, ran, kmer, last, grow, circ, bytes, seq, iter, rd, held, reads>>

\* Base::from_ascii(value)
CallFromAscii(value) ==
  /\ ctor = "base"
  /\ call' = [fn |-> "from_ascii", arg |-> value, out |-> FromAscii(value)]
  /\ UNCHANGED <<K, ctor, hist, npush, ran, kmer, last, grow, circ, bytes, seq, iter, rd, held, reads>>

NextBase ==
  \/ \E v \in U8 : CallTryFrom(v)
  \/ \E v \in 0..3 : CallFromU8Unchecked(v)
  \/ \E v \in U8 : CallFromAscii(v)

\* the conversions of Base, called with every u8
SpecBase == InitBase /\ [][NextBase]_vars

\* the window after Kmer::inner with the word taken out of the cell (Cell::take),
\* which would leave zero behind
SmallAfterInnerTaken(km) == Window(ZeroWord)

\* the window after Kmer::inner: self.inner.get() copies the word out of the
\* cell and leaves the cell as it is.  Bases::next reads through inner() too
SmallAfterInner(km) == km

\* the bits the program holds for its window or sequence
Stored ==
  IF kmer.st = "ok" THEN kmer.inner
  ELSE IF circ.st = "ok" THEN <<circ.store, circ.start>>
  ELSE seq

\* the kinds of read that are iterators
IterKinds == {"bases", "circ_bases", "kmers"}

\* a read begins: it is recorded with the number of pushes and the stored bits
LogBegin(by) ==
  Append(reads, [by |-> by, from |-> Len(hist), to |-> -1, mem |-> Stored, out |-> <<>>])

\* the record of the iterator that is alive: the last iterator begun
Running ==
  CHOOSE i \in 1..Len(reads) :
    /\ reads[i].by \in IterKinds
    /\ \A j \in (i + 1)..Len(reads) : reads[j].by \notin IterKinds

\* the iterator that is alive yields x
LogItem(x) == [reads EXCEPT ![Running].out = Append(@, x)]

\* the iterator that is alive returns None
LogEnd == [reads EXCEPT ![Running].to = Len(hist)]

\* a read that is one call: it begins and ends at once
LogCall(by, x) ==
  Append(reads, [by |-> by, from |-> Len(hist), to |-> Len(hist), mem |-> Stored, out |-> <<x>>])

\* window lengths of the inline windows that are iterated
IterKs == {2, 32}

\* window lengths From<u64> is used with: it asserts nothing about K
IterFromKs == {0, 33}

\* the word given to From<u64>: the bases A, C, G, T in its low byte
IterFromValue == U64FromU8(27)

\* window lengths of the sequences that are iterated
IterSeqKs == {0, 1, 2}

InitIterFrom ==
  /\ K \in IterFromKs
  /\ kmer = SmallFrom(IterFromValue)
  /\ ctor = "from"
  /\ hist = <<>> /\ npush = 0 /\ ran = FALSE
  /\ last = NoOp
  /\ NoBitWindows /\ NoSequence
  /\ NoExtras

\* another push or read may begin
OpsLeft == Len(reads) + npush < MaxOps

\* no iterator is alive, or it is at its end, or it has yielded few items
ReaderAtRest == rd.st \in {"absent", "done"} \/ (rd.st = "ok" /\ rd.pos <= MaxReadPos)

\* let bases = kmer.bases() on the inline window
ReadBases ==
  /\ kmer.st = "ok"
  /\ rd.st = "absent"
  /\ OpsLeft
  /\ rd' = [st |-> "ok", pos |-> 0, snap |-> SmallBases(K, kmer), out |-> <<>>]
  /\ reads' = LogBegin("bases")
  /\ UNCHANGED <<K, ctor, hist, npush, ran, kmer, last, grow, circ, bytes, seq, iter, call, held>>

\* bases.next() on the inline window, with each outcome the build can give.
\* Once it has returned None it can be called again
ReadBasesNext ==
  /\ kmer.st = "ok"
  /\ rd.st \in {"ok", "done"}
  /\ \E x \in SmallBasesNextOutcomes(K, kmer, rd.pos) :
       /\ rd' = IF x = "None" THEN [rd EXCEPT !.st = "done", !.pos = SmallBasesPosAfter(K, @)]
                ELSE IF x = "Panic" THEN [rd EXCEPT !.st = "panic"]
                ELSE [rd EXCEPT !.pos = SmallBasesPosAfter(K, @), !.out = Append(@, x)]
       /\ reads' = IF x = "None" THEN (IF rd.st = "ok" THEN LogEnd ELSE reads)
                   ELSE IF x = "Panic" THEN reads
                   ELSE LogItem(x)
       /\ kmer' = IF x = "None" THEN kmer ELSE SmallAfterInner(kmer)
  /\ UNCHANGED <<K, ctor, hist, npush, ran, last, grow, circ, bytes, seq, iter, call, held>>

\* let word = kmer.inner(), also while a Bases iterator is alive
ReadInner ==
  /\ kmer.st = "ok"
  /\ ReaderAtRest
  /\ OpsLeft
  /\ reads' = LogCall("inner", IntoInner(kmer))
  /\ kmer' = SmallAfterInner(kmer)
  /\ UNCHANGED <<K, ctor, hist, npush, ran, last, grow, circ, bytes, seq, iter, call, rd, held>>

\* let bases = kmer.bases() on the circular window
ReadCircBases ==
  /\ circ.st = "ok"
  /\ rd.st = "absent"
  /\ OpsLeft
  /\ rd' = [st |-> "ok", pos |-> 0, snap |-> UnboundedBases(circ), out |-> <<>>]
  /\ reads' = LogBegin("circ_bases")
  /\ UNCHANGED <<K, ctor, hist, npush, ran, kmer, last, grow, circ, bytes, seq, iter, call, held>>

\* bases.next() on the circular window; rd.pos is num_read
ReadCircNext ==
  /\ circ.st = "ok"
  /\ rd.st \in {"ok", "done"}
  /\ LET x == UnboundedBasesNext(circ, rd.pos)
     IN /\ rd' = IF x = "None" THEN [rd EXCEPT !.st = "done", !.pos = UnboundedNumReadAfter(circ, @)]
                 ELSE [rd EXCEPT !.pos = UnboundedNumReadAfter(circ, @), !.out = Append(@, x)]
        /\ reads' = IF x = "None" THEN (IF rd.st = "ok" THEN LogEnd ELSE reads) ELSE LogItem(x)
  /\ UNCHANGED <<K, ctor, hist, npush, ran, kmer, last, grow, circ, bytes, seq, iter, call, held>>

\* let n = kmer.size() on the circular window
ReadSize ==
  /\ circ.st = "ok"
  /\ ReaderAtRest
  /\ OpsLeft
  /\ reads' = LogCall("size", UnboundedSize(circ))
  /\ UNCHANGED <<K, ctor, hist, npush, ran, kmer, last, grow, circ, bytes, seq, iter, call, rd, held>>

\* the Bases iterator goes out of scope, at its end or early
ReadDrop ==
  /\ rd.st # "absent" /\ ReaderAtRest
  /\ rd' = NoReader
  /\ UNCHANGED <<K, ctor, hist, npush, ran, kmer, last, grow, circ, bytes, seq, iter, call, held, reads>>

\* kmer.push(base) on the inline window takes &self: it can be called while a
\* Bases iterator is alive
PushWhileRead(base) ==
  /\ ReaderAtRest
  /\ OpsLeft
  /\ Push(base)

\* kmer.push(base) on the circular window needs the unique borrow, so no Bases
\* iterator is alive
CircPushUnborrowed(base) == rd.st = "absent" /\ OpsLeft /\ CircPush(base)

\* seq.push(base) needs the unique borrow, so no SmallKmerIter is alive
SeqPushUnborrowed(base) == ctor = "sequence" /\ OpsLeft /\ SeqPush(base)

\* let kmers = seq.kmers::<K>()
ReadKmers ==
  /\ iter.st = "absent"
  /\ OpsLeft
  /\ iter' = SequenceKmers(K, seq)
  /\ reads' = IF SequenceKmers(K, seq).st = "ok" THEN LogBegin("kmers") ELSE reads
  /\ UNCHANGED <<K, ctor, hist, npush, ran, kmer, last, grow, circ, bytes, seq, call, rd, held>>

\* kmers.next(); once it has returned None it can be called again
ReadKmersNext ==
  /\ iter.st = "ok"
  /\ LET nx == SmallKmerIterNext(iter, seq)
     IN /\ iter' = nx
        /\ reads' = IF nx.done THEN (IF iter.done THEN reads ELSE LogEnd)
                    ELSE LogItem(SmallBases(K, Window(nx.out)))
  /\ UNCHANGED <<K, ctor, hist, npush, ran, kmer, last, grow, circ, bytes, seq, call, rd, held>>

InitIterSequence ==
  /\ K \in IterSeqKs
  /\ seq = SequenceNew
  /\ iter = NoIter
  /\ ctor = "sequence"
  /\ hist = <<>> /\ npush = 0 /\ ran = FALSE
  /\ NoSmall /\ NoBitWindows
  /\ NoExtras

InitIter == InitSmallNew(IterKs) \/ InitIterFrom \/ InitCircNew \/ InitIterSequence

NextIter ==
  \/ \E b \in RunBases : PushWhileRead(b)
  \/ ReadBases
  \/ ReadBasesNext
  \/ ReadInner
  \/ \E b \in RunBases : CircPushUnborrowed(b)
  \/ ReadCircBases
  \/ ReadCircNext
  \/ ReadSize
  \/ ReadDrop
  \/ \E b \in RunBases : SeqPushUnborrowed(b)
  \/ ctor = "sequence" /\ ReadKmers
  \/ ReadKmersNext
  \/ IterDrop

\* windows and sequences that are pushed to and read: by iterators that are run
\* to the end, past it, dropped and begun again, and by inner() and size()
SpecIter == InitIter /\ [][NextIter]_vars

\* the arguments of saturating_bitmask: those of tests::bitmask
MaskBits == 0..127

\* the arguments of bitmask_range: around 0, the middle and 64, as in tests::bitmask_range
RangeArgs == {0, 1, 2, 31, 32, 33, 62, 63, 64, 65, 100}

InitMask ==
  /\ K = 0
  /\ ctor = "mask"
  /\ hist = <<>> /\ npush = 0 /\ ran = FALSE
  /\ NoSmall /\ NoBitWindows /\ NoSequence
  /\ NoExtras

\* let mask = utils::saturating_bitmask(b)
CallSaturatingBitmask(b) ==
  /\ call' = [fn |-> "saturating_bitmask", arg |-> b, out |-> SaturatingBitmask(b)]
  /\ UNCHANGED <<K, ctor, hist, npush, ran, kmer, last, grow, circ, bytes, seq, iter, rd, held, reads>>

\* let mask = utils::bitmask_range(m, n)
CallBitmaskRange(m, n) ==
  /\ call' = [fn |-> "bitmask_range", arg |-> <<m, n>>, out |-> BitmaskRange(m, n)]
  /\ UNCHANGED <<K, ctor, hist, npush, ran, kmer, last, grow, circ, bytes, seq, iter, rd, held, reads>>

NextMask ==
  \/ \E b \in MaskBits : CallSaturatingBitmask(b)
  \/ \E m \in RangeArgs, n \in RangeArgs : CallBitmaskRange(m, n)

\* the bit-mask helpers of utils called with any arguments
SpecMask == InitMask /\ [][NextMask]_vars

----------------------------------------------------------------------------
(* Properties of the inline window *)

\* the window a FIFO of length k holds after the pushes s: the last k of
\* (k copies of C followed by s)
WindowOf(k, s) == LastN(Repeat("C", k) \o s, k)

\* the word whose base-4 digits are the codes of syms, the first the most significant
DigitsWord(syms) ==
  MkWord(LAMBDA i :
     IF i < 2 * Len(syms)
     THEN (BaseCode(syms[Len(syms) - (i \div 2)]) \div Pow2(i % 2)) % 2
     ELSE 0)

RECURSIVE Base4Value(_)
\* the base-4 number with the digits of syms, the first the most significant
Base4Value(syms) ==
  IF syms = <<>> THEN 0
  ELSE 4 * Base4Value(SubSeq(syms, 1, Len(syms) - 1)) + BaseCode(syms[Len(syms)])

RECURSIVE WordValue(_, _)
\* the number held by the low n bits of w
WordValue(w, n) == IF n = 0 THEN 0 ELSE Bit(w, n - 1) * Pow2(n - 1) + WordValue(w, n - 1)

\* the low n bits of w
LowBits(w, n) == MkWord(LAMBDA i : IF i < n THEN Bit(w, i) ELSE 0)

\* C1: a window built by new() (so 1 <= K <= 32) that has been pushed exactly K
\* bases reads back, through bases(), exactly those bases, first pushed first.
C1_RoundTrip ==
  (ctor = "new" /\ kmer.st = "ok" /\ Len(hist) = K) => SmallBases(K, kmer) = hist

C1_Witness ==
  /\ ctor = "new" /\ kmer.st = "ok" /\ K = 32 /\ Len(hist) = K
  /\ hist[1] = "T" /\ hist[2] = "G" /\ hist[32] = "A"
  /\ SmallBases(K, kmer) = hist

\* C2: after new() and any number of pushes, into_masked() is the base-4 number
\* whose K digits are the last K of (K copies of C, then the pushed bases), oldest
\* digit most significant; for K <= 15 the same is stated on the number itself,
\* and K = 4 with A, A, G, T pushed gives 0b01011110 = 94.
C2_MaskedIsLastK ==
  (ctor = "new" /\ kmer.st = "ok") =>
    LET m == IntoMasked(K, kmer)
        expected == WindowOf(K, hist)
    IN /\ m = DigitsWord(expected)
       /\ K <= 15 => WordValue(m, 30) = Base4Value(expected)
       /\ (K = 4 /\ hist = <<"A", "A", "G", "T">>) => WordValue(m, 30) = 94

C2_Witness ==
  /\ ctor = "new" /\ kmer.st = "ok" /\ K = 32 /\ Len(hist) = 34
  /\ hist[1] = "G" /\ hist[33] = "A" /\ hist[34] = "T"
  /\ IntoMasked(K, kmer) = DigitsWord(SubSeq(hist, 3, 34))

\* C6: for 1 <= L <= K <= 32, shrink_to::<L>() returns a window whose bases() are
\* the last L of the source's bases() (the L most recently pushed, for a window
\* built by new()) and whose into_masked() is the low 2L bits of the source value.
C6_ShrinkCorrect ==
  (last.op = "shrink_to" /\ 1 <= last.l /\ last.l <= K /\ K <= 32) =>
    /\ last.out.st = "ok"
    /\ SmallBases(last.l, last.out) = LastN(SmallBases(K, Window(last.src)), last.l)
    /\ ctor = "new" => SmallBases(last.l, last.out) = WindowOf(last.l, hist)
    /\ IntoMasked(last.l, last.out) = LowBits(last.src, 2 * last.l)

C6_Witness ==
  /\ last.op = "shrink_to" /\ last.l = 2 /\ K = 32 /\ ctor = "new"
  /\ Len(hist) = 34 /\ hist[33] = "T" /\ hist[34] = "G" /\ hist[1] = "A"
  /\ SmallBases(2, last.out) = <<"T", "G">>

\* C8: for K, L >= 1 with K + L <= 32, a.join(b) is a window of K + L bases whose
\* bases() are a.bases() followed by b.bases(), whatever was pushed to a and b.
C8_JoinIsConcat ==
  (last.op = "join" /\ K >= 1 /\ last.l >= 1 /\ K + last.l <= 32) =>
    /\ last.out.st = "ok"
    /\ SmallBases(K + last.l, last.out)
         = SmallBases(K, Window(last.src)) \o SmallBases(last.l, Window(last.other))

\* C10: new() fails exactly when K = 0 or K > 32, shrink_to::<L>() exactly when
\* L > K, join::<L>() exactly when K + L > 32; a failing call produces no window.
C10_CapacityErrors ==
  /\ ctor = "new" => (kmer.st = "panic" <=> (K = 0 \/ K > 32))
  /\ last.op = "shrink_to" => (last.out.st = "panic" <=> last.l > K)
  /\ last.op = "join" => (last.out.st = "panic" <=> K + last.l > 32)

\* C17: every inline window that exists, built by new(), From<u64>, shrink_to or
\* join, has a length in 1..32, and every circular window, built by new(k) or
\* from_bytes, has a length of at least 1 and never fails a push
C17_LengthInvariant ==
  /\ kmer.st = "ok" => K \in 1..32
  /\ (last.op = "shrink_to" /\ last.out.st = "ok") => last.l \in 1..32
  /\ (last.op = "join" /\ last.out.st = "ok") => (K + last.l) \in 1..32
  /\ circ.st = "ok" => UnboundedSize(circ) >= 1
  /\ circ.st # "panic"

\* C18: whatever pushes come between the calls of next(), a Bases iterator yields
\* the bases the window held when bases() was called
C18_ReaderSeesSnapshot ==
  rd.st # "absent" => rd.out = SubSeq(rd.snap, 1, Len(rd.out))

----------------------------------------------------------------------------
(* Properties of the circular window *)

\* the bases a byte slice stands for: byte i (in the given order) holds bases
\* 4i..4i+3, the first in its two most significant bits
DecodedCodes(bs) ==
  [p \in 1..(4 * Len(bs)) |->
     LET i == (p - 1) \div 4
         j == (p - 1) % 4
     IN (bs[i + 1] \div Pow2(6 - 2 * j)) % 4]

\* the base with code v
BaseOfCode(v) == CHOOSE b \in Base : BaseCode(b) = v

\* the bases a circular window holds right after construction
InitialBases ==
  IF ctor = "from_bytes" THEN [p \in 1..(4 * Len(bytes)) |-> BaseOfCode(DecodedCodes(bytes)[p])]
  ELSE Repeat("C", K)

\* C4: a circular window of K >= 1 bases never fails to push, and after any
\* pushes bases() yields the last K of (the initial K bases, then the pushed
\* bases), oldest first; the initial bases are K copies of C after new(K) and
\* the decoded bytes after from_bytes.
C4_CircularFifo ==
  K >= 1 =>
    /\ circ.st = "ok"
    /\ UnboundedBases(circ) = LastN(InitialBases \o hist, K)

C4_Witness ==
  /\ K = 2 /\ ctor = "new" /\ circ.st = "ok"
  /\ hist = <<"A", "T", "G", "A", "T">>
  /\ circ.start = 2
  /\ UnboundedBases(circ) = <<"A", "T">>

\* C7: from_bytes(b) has size() = 4 * len(b), and bases() yields for byte i and
\* j in 0..3 the base whose code is bits (7-2j, 6-2j) of b[i]; from_bytes([0x1B])
\* reads C, A, T, G.
C7_FromBytesLayout ==
  (ctor = "from_bytes" /\ hist = <<>>) =>
    /\ UnboundedSize(circ) = 4 * Len(bytes)
    /\ Len(UnboundedBases(circ)) = 4 * Len(bytes)
    /\ \A p \in 1..(4 * Len(bytes)) :
         BaseCode(UnboundedBases(circ)[p]) = DecodedCodes(bytes)[p]
    /\ bytes = <<27>> => UnboundedBases(circ) = <<"C", "A", "T", "G">>

C7_Witness ==
  /\ ctor = "from_bytes" /\ hist = <<>>
  /\ bytes = <<27, 228>>
  /\ UnboundedBases(circ) = <<"C", "A", "T", "G", "G", "T", "A", "C">>

\* C14, as claimed: new(K) sets start = 0, and after any pushes from new(K) or
\* from_bytes start is a multiple of 2 with 0 <= start < 2K
C14_StartBelowLength ==
  (circ.st = "ok" /\ K >= 1) =>
    /\ (ctor = "new" /\ hist = <<>>) => circ.start = 0
    /\ circ.start % 2 = 0
    /\ 0 <= circ.start /\ circ.start < 2 * K

\* C14, amended: new(K) sets start = 2K, and after any pushes from new(K) or
\* from_bytes start is a multiple of 2 with start <= 2K, the buffer length, and
\* 0 < start when K >= 1
C14_StartUpToLength ==
  circ.st = "ok" =>
    /\ (ctor = "new" /\ hist = <<>>) => circ.start = 2 * K
    /\ Len(circ.store) = 2 * K
    /\ circ.start % 2 = 0
    /\ circ.start <= 2 * K
    /\ K >= 1 => 0 < circ.start

\* three pushes on new(3) took start from 6 down to 2 and back to 6
C14_Witness ==
  /\ ctor = "new" /\ K = 3 /\ circ.st = "ok"
  /\ Len(hist) = 3 /\ circ.start = 6

\* the 2-bit range starting at bit offset p lies in the buffer at an even offset
SlotInBuffer(c, p) == p >= 0 /\ p % 2 = 0 /\ p + 2 <= Len(c.store)

\* C15: for K >= 1, after any pushes, the range the next push() writes and every
\* range Bases::next() reads start at an even offset p with p + 2 <= buffer length:
\* no push has panicked, and next() yields all the size() bases, none cut short
C15_AccessInBuffer ==
  K >= 1 =>
    /\ circ.st = "ok"
    /\ SlotInBuffer(circ, UnboundedPushOffset(circ))
    /\ \A n \in 0..(UnboundedSize(circ) - 1) :
         /\ SlotInBuffer(circ, UnboundedBitPos(circ, n) - 2)
         /\ UnboundedBasesNext(circ, n) # "None"
    /\ Len(UnboundedBases(circ)) = UnboundedSize(circ)

\* four pushes on new(3): start is 4, and the third read wraps to the top slot
C15_Witness ==
  /\ ctor = "new" /\ K = 3 /\ circ.st = "ok"
  /\ Len(hist) = 4 /\ circ.start = 4
  /\ UnboundedBitPos(circ, 2) = 6
  /\ Len(UnboundedBases(circ)) = 3

\* a step is a successful push on the circular window
IsCircPush == circ.st = "ok" /\ circ'.st = "ok" /\ Len(hist') = Len(hist) + 1

\* the pushed base's code is in the slot that held the oldest base (the one
\* bases() would have yielded first), and no other bit and not the length changed
OneSlotWritten ==
  LET p == UnboundedBitPos(circ, 0) - 2
  IN /\ Len(circ'.store) = Len(circ.store)
     /\ circ'.store[p + 1] + 2 * circ'.store[p + 2] = BaseCode(hist'[Len(hist')])
     /\ \A i \in 1..Len(circ.store) :
          (i # p + 1 /\ i # p + 2) => circ'.store[i] = circ.store[i]

\* C16, as claimed: a push writes the code into the oldest base's slot, leaves the
\* other bits and the length alone, and advances start by 2 modulo the buffer length
C16_PushAdvancesStart ==
  [][IsCircPush =>
       /\ OneSlotWritten
       /\ circ'.start % Len(circ.store) = (circ.start + 2) % Len(circ.store)]_vars

\* C16, amended: a push writes the code into the oldest base's slot, leaves the
\* other bits and the length alone, and moves start down by 2, from 2 to the
\* buffer length
C16_PushMovesStartDown ==
  [][IsCircPush =>
       /\ OneSlotWritten
       /\ circ'.start = IF circ.start = 2 THEN Len(circ.store) ELSE circ.start - 2]_vars

\* G pushed on new(3): its code 3 is in the top slot, the rest is zero, start is 4
C16_Witness ==
  /\ ctor = "new" /\ K = 3 /\ circ.st = "ok"
  /\ hist = <<"G">>
  /\ circ.store = <<0, 0, 0, 0, 1, 1>>
  /\ circ.start = 4

----------------------------------------------------------------------------
(* Properties of the three representations *)

\* C3: built with the same K and given the same pushes, the inline, the fixed
\* bit-vector and the circular window read the same bases, right after
\* construction and after each push.
C3_SameBases ==
  (kmer.st = "ok" /\ K >= 1) =>
    /\ grow.st = "ok" /\ circ.st = "ok"
    /\ UnboundedBases(circ) = SmallBases(K, kmer)
    /\ GrowableBases(grow) = SmallBases(K, kmer)

C3_Witness ==
  /\ K = 32 /\ kmer.st = "ok" /\ circ.st = "ok" /\ grow.st = "ok"
  /\ Len(hist) = 34 /\ hist[1] = "T" /\ hist[34] = "G" /\ hist[3] = "A"
  /\ UnboundedBases(circ) = SubSeq(hist, 3, 34)
  /\ SmallBases(K, kmer) = SubSeq(hist, 3, 34)
  /\ GrowableBases(grow) = SubSeq(hist, 3, 34)

\* C13: right after new, an inline window (K in 1..32) stores 0, a circular window
\* of length K has exactly 2K bits, all zero, and both read back K bases, all C
C13_FreshAllC ==
  (ctor = "new" /\ hist = <<>>) =>
    /\ K \in 1..32 =>
         /\ kmer.st = "ok"
         /\ IntoInner(kmer) = ZeroWord
         /\ SmallBases(K, kmer) = Repeat("C", K)
    /\ circ.st = "ok"
    /\ Len(circ.store) = 2 * K
    /\ \A i \in 1..Len(circ.store) : circ.store[i] = 0
    /\ UnboundedBases(circ) = Repeat("C", K)

\* both windows fresh with K = 32, each reading 32 bases
C13_Witness ==
  /\ ctor = "new" /\ hist = <<>> /\ K = 32
  /\ kmer.st = "ok" /\ circ.st = "ok"
  /\ Len(SmallBases(K, kmer)) = 32 /\ Len(UnboundedBases(circ)) = 32
  /\ Len(circ.store) = 64

\* C9: growable::Kmer::new(K).size() is K, the number of bases
C9_GrowableSize == grow.st = "ok" => GrowableSize(grow) = K

----------------------------------------------------------------------------
(* Properties of the sliding-window iterator *)

\* the number of windows of length k in a sequence of n bases
NumWindows(n, k) == IF n >= k THEN n - k + 1 ELSE 0

\* C5: for K in 1..32 and a sequence of N pushed bases, kmers::<K>() does not fail,
\* never yields more than max(N-K+1, 0) windows, has yielded exactly that many when
\* next() returns None, and its i-th window holds the bases i .. i+K-1 of the sequence
C5_SlidingWindows ==
  (ctor = "sequence" /\ K \in 1..32 /\ iter.st # "absent") =>
     /\ iter.st = "ok"
     /\ iter.count <= NumWindows(Len(hist), K)
     /\ iter.done => iter.count = NumWindows(Len(hist), K)
     /\ iter.count >= 1 =>
          SmallBases(K, Window(iter.out)) = SubSeq(hist, iter.count, iter.count + K - 1)

\* a sequence of 34 bases has given its three windows of length 32, the last one
\* ending with the two bases pushed after the run
C5_Witness ==
  /\ ctor = "sequence" /\ K = 32 /\ Len(hist) = 34
  /\ iter.st = "ok" /\ iter.done /\ iter.count = 3
  /\ hist[1] = "A" /\ hist[33] = "T" /\ hist[34] = "G"
  /\ SmallBases(K, Window(iter.out)) = SubSeq(hist, 3, 34)

----------------------------------------------------------------------------
(* Properties of Base *)

\* the code table: C = 0, A = 1, T = 2, G = 3
CodeTable == <<"C", "A", "T", "G">>

\* C11: try_from(v) is C, A, T, G for v = 0, 1, 2, 3, where it agrees with
\* from_u8_unchecked(v) and `as` gives v back, and an error for every v in 4..255
C11_TryFromCodec ==
  call.fn = "try_from" =>
    IF call.arg \in 0..3
    THEN /\ call.out = CodeTable[call.arg + 1]
         /\ call.out = FromU8Unchecked(call.arg)
         /\ BaseCode(call.out) = call.arg
    ELSE call.out = "Err"

\* try_from(4), the first value out of range, was called and gave an error
C11_Witness == call = [fn |-> "try_from", arg |-> 4, out |-> "Err"]

\* the place of an ASCII letter in the alphabet (A = 1), whatever its case; 0 for other bytes
LetterOf(b) == IF b \in 65..90 THEN b - 64 ELSE IF b \in 97..122 THEN b - 96 ELSE 0

\* C12: from_ascii(b) is Some(C), Some(A), Some(T), Some(G) for the letters c, a, t, g
\* in either case and None for each of the other 248 bytes
C12_FromAscii ==
  /\ call.fn = "from_ascii" =>
        call.out = CASE LetterOf(call.arg) = 3 -> "C"
                     [] LetterOf(call.arg) = 1 -> "A"
                     [] LetterOf(call.arg) = 20 -> "T"
                     [] LetterOf(call.arg) = 7 -> "G"
                     [] OTHER -> "None"
  /\ Cardinality({b \in U8 : FromAscii(b) = "None"}) = 248

\* from_ascii(b't') was called and gave T
C12_Witness == call = [fn |-> "from_ascii", arg |-> 116, out |-> "T"]

----------------------------------------------------------------------------
(* Properties of the windows a caller holds *)

\* C19: a window yielded by SmallKmerIter::next() keeps its bases() and its masked
\* value through later next() calls, and a clone keeps them through later pushes
\* on the window it was cloned from
C19_YieldedAreSnapshots ==
  \A i \in 1..Len(held) :
     /\ SmallBases(K, Window(Deref(held, i))) = held[i].want
     /\ IntoMasked(K, Window(Deref(held, i))) = DigitsWord(held[i].want)

\* the first window was yielded for A, a second next() followed, then the first
\* was cloned and pushed G: the clone still reads A
C19_Witness ==
  /\ ctor = "sequence" /\ K = 1 /\ iter.st = "ok" /\ iter.count = 2
  /\ Len(held) = 3
  /\ held[1].want = <<"G">> /\ held[1].pushed
  /\ held[3].of = 1 /\ held[3].want = <<"A">>
  /\ SmallBases(K, Window(Deref(held, 3))) = <<"A">>

----------------------------------------------------------------------------
(* Properties of the calls of from_u8_unchecked *)

\* C20: in every reachable state, each argument the library gives
\* from_u8_unchecked is in 0..3: in the inline Bases::next (of a window, and of a
\* window yielded by the iterator), in the circular Bases::next, and for every
\* chunk that kmers() seeds with or SmallKmerIter::next pushes
C20_UncheckedArgInRange ==
  /\ kmer.st = "ok" =>
        \A pos \in 0..(K - 1) : SmallBasesArg(K, kmer, pos) \in 0..3
  /\ circ.st = "ok" =>
        \A n \in 0..(UnboundedSize(circ) - 1) : UnboundedBasesArg(circ, n) \in 0..3
  /\ \A c \in 0..(NumChunks(seq) - 1) : ChunkLoad(seq, c) \in 0..3
  /\ (iter.st = "ok" /\ iter.count >= 1) =>
        \A pos \in 0..(K - 1) : SmallBasesArg(K, Window(iter.out), pos) \in 0..3

\* G pushed twice on windows of length 1: the inline word has a stale G above the
\* window, and both reads give the argument 3
C20_Witness ==
  /\ ctor = "new" /\ K = 1 /\ kmer.st = "ok" /\ circ.st = "ok"
  /\ hist = <<"G", "G">>
  /\ Bit(kmer.inner, 2) = 1 /\ Bit(kmer.inner, 3) = 1
  /\ SmallBasesArg(K, kmer, 0) = 3
  /\ UnboundedBasesArg(circ, 0) = 3

----------------------------------------------------------------------------
(* Properties of the iterators and of reading *)

\* size_hint() is (r, Some(r)), with r items yielded so far subtracted from what
\* a fresh iterator announces; r > 0 exactly when next() yields an item
ExactSize(hint, yielded, fresh, nextIsNone) ==
  /\ hint[1] = hint[2]
  /\ hint[1] + yielded = fresh
  /\ (hint[1] = 0) = nextIsNone

\* C21: the inline Bases, the circular Bases and SmallKmerIter are exact-size and
\* fused: next() never panics; at every point size_hint() is (r, Some(r)), r being
\* the announced length of a fresh iterator (K, size(), max(N-K+1, 0)) less the
\* items yielded so far, and next() returns None exactly when r = 0; once next()
\* has returned None, the next call returns None and leaves the iterator as it is
C21_ExactSizeFused ==
  /\ (kmer.st = "ok" /\ rd.st # "absent") =>
       /\ rd.st # "panic"
       /\ ExactSize(SmallBasesSizeHint(K, rd.pos), Len(rd.out), K,
                    SmallBasesNextOutcomes(K, kmer, rd.pos) = {"None"})
       /\ rd.st = "done" =>
            /\ SmallBasesNextOutcomes(K, kmer, rd.pos) = {"None"}
            /\ SmallBasesPosAfter(K, rd.pos) = rd.pos
  /\ (circ.st = "ok" /\ rd.st # "absent") =>
       /\ ExactSize(UnboundedBasesSizeHint(circ, rd.pos), Len(rd.out), UnboundedSize(circ),
                    UnboundedBasesNext(circ, rd.pos) = "None")
       /\ rd.st = "done" =>
            /\ UnboundedBasesNext(circ, rd.pos) = "None"
            /\ UnboundedNumReadAfter(circ, rd.pos) = rd.pos
  /\ iter.st = "ok" =>
       /\ ExactSize(SmallKmerIterSizeHint(iter, seq), iter.count, NumWindows(Len(hist), K),
                    SmallKmerIterNext(iter, seq).done)
       /\ iter.done => SmallKmerIterNext(iter, seq) = iter

\* what a read of this kind yields when it is begun now and run to its end: a
\* Bases from position 0, the windows of a sequence from its first base
ReadNow(by) ==
  IF by = "bases"
    THEN [p \in 1..K |-> CHOOSE x \in SmallBasesNextOutcomes(K, kmer, p - 1) : x # "Panic"]
  ELSE IF by = "circ_bases" THEN UnboundedBases(circ)
  ELSE IF by = "kmers" THEN [i \in 1..NumWindows(Len(hist), K) |-> SubSeq(hist, i, i + K - 1)]
  ELSE IF by = "inner" THEN <<kmer.inner>>
  ELSE <<UnboundedSize(circ)>>

\* the read ran to its end with no push since it began
Undisturbed(r) == r.to = r.from /\ r.from = Len(hist)

\* C22: reading is pure and restartable: as long as nothing is pushed after a read
\* (bases() and next() on an inline or circular window, inner(), size(), kmers()
\* and next() on a sequence) began, the stored bits, the circular start offset
\* and the sequence's contents are what they were when it began; a read run to its
\* end yields what a read begun afresh yields, from the first position, however
\* many reads came before it; and two such reads of one kind yield the same
C22_PureRestartable ==
  \A i \in 1..Len(reads) :
    /\ reads[i].from = Len(hist) => Stored = reads[i].mem
    /\ Undisturbed(reads[i]) => reads[i].out = ReadNow(reads[i].by)
    /\ \A j \in 1..Len(reads) :
         (Undisturbed(reads[i]) /\ Undisturbed(reads[j]) /\ reads[i].by = reads[j].by)
           => reads[i].out = reads[j].out

\* a window that was pushed to is read to the end twice, the second time after
\* the first iterator was dropped, and both reads yield the same two or more items
C22_Witness ==
  /\ hist # <<>>
  /\ \E i, j \in 1..Len(reads) :
       /\ i < j
       /\ reads[i].by \in IterKinds /\ reads[j].by = reads[i].by
       /\ Undisturbed(reads[i]) /\ Undisturbed(reads[j])
       /\ Len(reads[j].out) >= 2
       /\ reads[j].out[1] # reads[j].out[2]

----------------------------------------------------------------------------
(* Properties of the bit-mask helpers *)

\* C23: saturating_bitmask(b) is 2^b - 1 for b in 0..64, the word whose bits below
\* b are set and no other, and u64::MAX for b >= 64; bitmask_range(m, n) is the
\* word with exactly the bits i, m <= i < n and i < 64, set, so 0 when n <= m
C23_BitMasks ==
  /\ call.fn = "saturating_bitmask" =>
       /\ \A i \in 0..(W - 1) : Bit(call.out, i) = IF i < call.arg THEN 1 ELSE 0
       /\ call.arg <= 30 => WordValue(call.out, 31) = Pow2(call.arg) - 1
       /\ call.arg >= W => call.out = MaxWord
  /\ call.fn = "bitmask_range" =>
       /\ \A i \in 0..(W - 1) :
            Bit(call.out, i) = IF call.arg[1] <= i /\ i < call.arg[2] THEN 1 ELSE 0
       /\ call.arg[2] <= call.arg[1] => call.out = ZeroWord

\* bitmask_range(1, 64) was called, as in tests::bitmask_range: 0xfffffffffffffffe
C23_Witness ==
  /\ call.fn = "bitmask_range"
  /\ call.arg = <<1, 64>>
  /\ call.out = Shl(MaxWord, 1)

====
